---- MODULE Spec2Model ----
(***************************************************************************)
(* The JNI bridge of aw-server-rust (src/android/mod.rs): the process-wide *)
(* DATASTORE slot and its lazy accessor openDatastore, the INITIALIZED     *)
(* flag, the blocking startServer and the data entry points, each run by   *)
(* the host on any of its threads.                                         *)
(*                                                                         *)
(* Every entry point is one call of one host thread.  The steps of a call  *)
(* that touch only the thread's own values (decoding the arguments,        *)
(* building the returned text) are folded into the neighbouring step; a    *)
(* read or a write of a `static mut`, an engine operation and the binding  *)
(* of the port are steps of their own, so calls of different threads       *)
(* interleave between them.  A panic inside an `extern fn` ends the        *)
(* process: no thread takes a step after it.                               *)
(*                                                                         *)
(* Allocation of Java strings (string_to_jstring) is taken to succeed.     *)
(***************************************************************************)
EXTENDS Integers, Sequences, FiniteSets, TLC

\* ------------------------------------------------------------------ bounds
NThreads == 2        \* host threads that call into the bridge
MaxCalls == 3        \* entry-point calls the host makes in one process
MaxEvents == 1       \* events the storage keeps per bucket

Threads == 1..NThreads

\* ------------------------------------------------------------ input values
BucketIds == {"b1"}
BucketOrder == <<"b1">>
Paths == {"dirA", "dirB"}       \* storage locations the host may set
Unopenable == {"dirB"}          \* locations at which no database can be opened
DefaultDir == "dirA"
Names == {"world"}
AssetPaths == {"assets"}
Pulses == {0, 60}
BucketTexts == {"{\"id\":\"b1\"}", "{"}
EventTexts == {"{\"timestamp\":1}", "nope"}

\* A JString handed over by the host: a string whose modified UTF-8 bytes are
\* valid UTF-8 ("ok"), one whose bytes are not ("badutf8": a NUL or a
\* supplementary character), or the null reference.
JStrings(texts) ==
    [kind : {"ok"}, text : texts]
        \cup {[kind |-> "badutf8", text |-> ""], [kind |-> "null", text |-> ""]}

\* --------------------------------------------------------- returned values
Ret(fn, shape, text, cause) ==
    [fn |-> fn, shape |-> shape, text |-> text, cause |-> cause]

\* The value r as the outcome of a call of thread t.
OutcomeOf(t, r) ==
    [thread |-> t, fn |-> r.fn, shape |-> r.shape, text |-> r.text,
     cause |-> r.cause]
NoRet == OutcomeOf(0, Ret("none", "none", "", "none"))
NoOp == [fn |-> "none", bucket |-> "", pulse |-> 0]
None == 0

\* string_to_jstring: the text crosses the boundary unchanged.
string_to_jstring(fn, shape, text, cause) == Ret(fn, shape, text, cause)

\* obj.to_string() of the object json!({}) with obj["error"] = msg.
EnvelopeText(msg) == "{\"error\":\"" \o msg \o "\"}"

\* create_error_object: the object {"error": msg}, serialised and returned.
create_error_object(fn, msg, cause) ==
    string_to_jstring(fn, "envelope", EnvelopeText(msg), cause)

\* jstring_to_string: get_string(..).expect("invalid string") fails on the
\* null reference and to_str().unwrap() on bytes that are not UTF-8; both
\* panic (`why` tells the two apart).
jstring_to_string(j) ==
    IF j.kind = "ok"
    THEN [ok |-> TRUE, text |-> j.text, why |-> "none"]
    ELSE [ok |-> FALSE, text |-> "invalid string",
          why |-> IF j.kind = "null" THEN "null" ELSE "text"]

\* rust_greeting with the Err arm passing an empty recipient on.
rust_greeting_NoFallback(j) ==
    "Hello " \o (IF j.kind = "ok" THEN j.text ELSE "") \o " (from Rust!)"

\* rust_greeting: the recipient is the text, or "there" when it is not UTF-8.
rust_greeting(j) ==
    "Hello " \o (IF j.kind = "ok" THEN j.text ELSE "there") \o " (from Rust!)"

\* serde_json::from_str::<Bucket> and ::<Event> on the texts of the model.
from_str_Bucket(text) ==
    IF text = "{\"id\":\"b1\"}"
    THEN [ok |-> TRUE, id |-> "b1", err |-> ""]
    ELSE [ok |-> FALSE, id |-> "",
          err |-> "EOF while parsing an object at line 1 column 1"]

from_str_Event(text) ==
    IF text = "{\"timestamp\":1}"
    THEN [ok |-> TRUE, err |-> ""]
    ELSE [ok |-> FALSE, err |-> "expected ident at line 1 column 2"]

\* json!(..).to_string() of the buckets and of the events of a bucket.
RECURSIVE JoinFrom(_, _, _)
JoinFrom(items, i, first) ==
    IF i > Len(items) THEN ""
    ELSE (IF first THEN "" ELSE ",") \o items[i] \o JoinFrom(items, i + 1, FALSE)

json_buckets(bs) ==
    LET ids == SelectSeq(BucketOrder, LAMBDA b : b \in bs)
        objs == [i \in 1..Len(ids) |-> "{\"id\":\"" \o ids[i] \o "\"}"]
    IN "[" \o JoinFrom(objs, 1, TRUE) \o "]"

json_events(n) ==
    "[" \o JoinFrom([i \in 1..n |-> "{\"timestamp\":1}"], 1, TRUE) \o "]"

\* ------------------------------------------------------------------- state
VARIABLES
    DATASTORE,     \* static mut DATASTORE: None, or the engine it holds
    engines,       \* the engines Datastore::new has built: the path of each
    dataDir,       \* the storage location set_android_data_dir has set
    buckets,       \* the buckets in the database at the openable location
    events,        \* the number of events of each bucket there
    INITIALIZED,   \* static mut INITIALIZED
    redirects,     \* how often redirect_stdout_to_logcat has run
    portOwner,     \* the thread whose service is bound to 127.0.0.1:5600, or 0
    pc,            \* where each host thread is in its call
    op,            \* the decoded arguments of the call in progress
    handle,        \* the engine openDatastore has returned to the call
    ret,           \* what the step just taken returned to the host, if it ended a call
    calls          \* the calls the host has made

vars == <<DATASTORE, engines, dataDir, buckets, events, INITIALIZED, redirects,
          portOwner, pc, op, handle, ret, calls>>

store == <<buckets, events>>

\* The process has been aborted by a panic in one of the entry points.
aborted == ret.shape = "panic"

Init ==
    /\ DATASTORE = None
    /\ engines = <<>>
    /\ dataDir = DefaultDir
    /\ buckets = {}
    /\ events = [b \in BucketIds |-> 0]
    /\ INITIALIZED = FALSE
    /\ redirects = 0
    /\ portOwner = 0
    /\ pc = [t \in Threads |-> "idle"]
    /\ op = [t \in Threads |-> NoOp]
    /\ handle = [t \in Threads |-> None]
    /\ ret = NoRet
    /\ calls = 0

\* --------------------------------------------------- how a call begins, ends
\* The host calls an entry point on thread t.
Enter(t) ==
    /\ ~aborted
    /\ pc[t] = "idle"
    /\ calls < MaxCalls
    /\ calls' = calls + 1

\* The call returns r to the host.
Return(t, r) ==
    /\ pc' = [pc EXCEPT ![t] = "idle"]
    /\ op' = [op EXCEPT ![t] = NoOp]
    /\ handle' = [handle EXCEPT ![t] = None]
    /\ ret' = OutcomeOf(t, r)

\* The call panics: unwrap() or expect() on an Err, or a value that panics
\* when dropped.
Panic(t, fn, msg, cause) ==
    /\ pc' = [pc EXCEPT ![t] = "idle"]
    /\ op' = [op EXCEPT ![t] = NoOp]
    /\ handle' = [handle EXCEPT ![t] = None]
    /\ ret' = OutcomeOf(t, Ret(fn, "panic", msg, cause))

\* The call goes on to openDatastore() with its decoded arguments.
ToOpen(t, o) ==
    /\ pc' = [pc EXCEPT ![t] = "open"]
    /\ op' = [op EXCEPT ![t] = o]
    /\ ret' = NoRet
    /\ UNCHANGED handle

\* ------------------------------------------------------------ openDatastore
\* openDatastore with the Some arm building a fresh engine instead of cloning
\* the one in the slot.
OpenCheck_Rebuild(t) ==
    /\ ~aborted
    /\ pc[t] = "open"
    /\ IF DATASTORE # None
       THEN /\ engines' = Append(engines, dataDir)
            /\ handle' = [handle EXCEPT ![t] = Len(engines) + 1]
            /\ pc' = [pc EXCEPT ![t] = "op"]
       ELSE /\ pc' = [pc EXCEPT ![t] = "construct"]
            /\ UNCHANGED <<handle, engines>>
    /\ UNCHANGED <<DATASTORE, dataDir, store, INITIALIZED, redirects,
                   portOwner, op, calls>>
    /\ ret' = NoRet

\* openDatastore taking the construct arm again when the storage location
\* has been changed since the engine in the slot was built.
OpenCheck_Repath(t) ==
    /\ ~aborted
    /\ pc[t] = "open"
    /\ IF DATASTORE # None /\ engines[DATASTORE] = dataDir
       THEN /\ handle' = [handle EXCEPT ![t] = DATASTORE]
            /\ pc' = [pc EXCEPT ![t] = "op"]
       ELSE /\ pc' = [pc EXCEPT ![t] = "construct"]
            /\ UNCHANGED handle
    /\ UNCHANGED <<DATASTORE, engines, dataDir, store, INITIALIZED, redirects,
                   portOwner, op, calls>>
    /\ ret' = NoRet

\* match DATASTORE: Some(ref ds) => ds.clone(), None => construct.
OpenCheck(t) ==
    /\ ~aborted
    /\ pc[t] = "open"
    /\ IF DATASTORE # None
       THEN /\ handle' = [handle EXCEPT ![t] = DATASTORE]
            /\ pc' = [pc EXCEPT ![t] = "op"]
       ELSE /\ pc' = [pc EXCEPT ![t] = "construct"]
            /\ UNCHANGED handle
    /\ UNCHANGED <<DATASTORE, engines, dataDir, store, INITIALIZED, redirects,
                   portOwner, op, calls>>
    /\ ret' = NoRet

\* DATASTORE = Some(Datastore::new(db_dir)); openDatastore()
OpenConstruct(t) ==
    /\ ~aborted
    /\ pc[t] = "construct"
    /\ engines' = Append(engines, dataDir)
    /\ DATASTORE' = Len(engines) + 1
    /\ pc' = [pc EXCEPT ![t] = "open"]
    /\ ret' = NoRet
    /\ UNCHANGED <<dataDir, store, INITIALIZED, redirects, portOwner, op,
                   handle, calls>>

\* -------------------------------------------------- the storage engine
\* Datastore: every operation answers Ok or Err.  An engine built on a
\* location where no database can be opened answers Err to everything;
\* `fault` is a failure of the storage itself (I/O) during the operation.
Usable(e) == engines[e] \notin Unopenable

get_buckets(e, fault) == Usable(e) /\ ~fault
create_bucket(e, id, fault) == Usable(e) /\ ~fault /\ id \notin buckets
heartbeat(e, id, fault) == Usable(e) /\ ~fault /\ id \in buckets
get_events(e, id, fault) == Usable(e) /\ ~fault /\ id \in buckets

\* --------------------------------------------------------------- greeting
\* The call with the JString j as java_pattern.
GreetingWith(t, j) ==
    /\ Enter(t)
    /\ IF j.kind = "null"
       THEN Panic(t, "greeting", "invalid pattern string", "null")
       ELSE Return(t, string_to_jstring("greeting", "plain",
                                        rust_greeting(j), "none"))
    /\ UNCHANGED <<DATASTORE, engines, dataDir, store, INITIALIZED, redirects,
                   portOwner>>

Greeting(t) == \E j \in JStrings(Names) : GreetingWith(t, j)

\* ------------------------------------------------------------- initialize
\* if !INITIALIZED: the flag is read.
Initialize(t) ==
    /\ Enter(t)
    /\ pc' = [pc EXCEPT ![t] = IF INITIALIZED THEN "init_already"
                                              ELSE "init_redirect"]
    /\ op' = [op EXCEPT ![t] = [NoOp EXCEPT !.fn = "initialize"]]
    /\ UNCHANGED <<DATASTORE, engines, dataDir, store, INITIALIZED, redirects,
                   portOwner, handle>>
    /\ ret' = NoRet

\* redirect_stdout_to_logcat()
InitRedirect(t) ==
    /\ ~aborted
    /\ pc[t] = "init_redirect"
    /\ redirects' = redirects + 1
    /\ pc' = [pc EXCEPT ![t] = "init_set"]
    /\ UNCHANGED <<DATASTORE, engines, dataDir, store, INITIALIZED, portOwner,
                   op, handle, calls>>
    /\ ret' = NoRet

\* What initialize has printed when it returns.
InitLog(t) ==
    IF pc[t] = "init_already" THEN "Already initialized"
                              ELSE "Initializing aw-server-rust..."

\* initialize without the assignment INITIALIZED = true.
InitSet_Forget(t) ==
    /\ ~aborted
    /\ pc[t] \in {"init_set", "init_already"}
    /\ Return(t, Ret("initialize", "void", InitLog(t), "none"))
    /\ UNCHANGED <<DATASTORE, engines, dataDir, store, INITIALIZED, redirects,
                   portOwner, calls>>

\* initialize with the flag flipped instead of set.
InitSet_Toggle(t) ==
    /\ ~aborted
    /\ pc[t] \in {"init_set", "init_already"}
    /\ INITIALIZED' = ~INITIALIZED
    /\ Return(t, Ret("initialize", "void", InitLog(t), "none"))
    /\ UNCHANGED <<DATASTORE, engines, dataDir, store, redirects, portOwner,
                   calls>>

\* INITIALIZED = true, and the call returns.
InitSet(t) ==
    /\ ~aborted
    /\ pc[t] \in {"init_set", "init_already"}
    /\ INITIALIZED' = TRUE
    /\ Return(t, Ret("initialize", "void", InitLog(t), "none"))
    /\ UNCHANGED <<DATASTORE, engines, dataDir, store, redirects, portOwner,
                   calls>>

\* ------------------------------------------------------------- setDataDir
SetDataDir(t) ==
    /\ Enter(t)
    /\ \E j \in JStrings(Paths) :
         LET dir == jstring_to_string(j) IN
         IF dir.ok
         THEN /\ dataDir' = dir.text
              /\ Return(t, Ret("setDataDir", "void", "", "none"))
         ELSE /\ Panic(t, "setDataDir", dir.text, dir.why)
              /\ UNCHANGED dataDir
    /\ UNCHANGED <<DATASTORE, engines, store, INITIALIZED, redirects,
                   portOwner>>

\* ------------------------------------------------------------- getBuckets
GetBuckets(t) ==
    /\ Enter(t)
    /\ ToOpen(t, [NoOp EXCEPT !.fn = "getBuckets"])
    /\ UNCHANGED <<DATASTORE, engines, dataDir, store, INITIALIZED, redirects,
                   portOwner>>

\* getBuckets answering with the serialisation of an empty list, whatever
\* the engine holds.
DoGetBucketsWith_Empty(t, fault) ==
    /\ ~aborted
    /\ pc[t] = "op"
    /\ op[t].fn = "getBuckets"
    /\ IF get_buckets(handle[t], fault)
       THEN Return(t, string_to_jstring("getBuckets", "array",
                                        json_buckets({}), "none"))
       ELSE Panic(t, "getBuckets", "called unwrap() on an Err", "backend")
    /\ UNCHANGED <<DATASTORE, engines, dataDir, store, INITIALIZED, redirects,
                   portOwner, calls>>

\* openDatastore().get_buckets().unwrap(), then json!(buckets).to_string()
DoGetBucketsWith(t, fault) ==
    /\ ~aborted
    /\ pc[t] = "op"
    /\ op[t].fn = "getBuckets"
    /\ IF get_buckets(handle[t], fault)
       THEN Return(t, string_to_jstring("getBuckets", "array",
                                        json_buckets(buckets), "none"))
       ELSE Panic(t, "getBuckets", "called unwrap() on an Err", "backend")
    /\ UNCHANGED <<DATASTORE, engines, dataDir, store, INITIALIZED, redirects,
                   portOwner, calls>>

DoGetBuckets(t) == \E fault \in BOOLEAN : DoGetBucketsWith(t, fault)

\* ----------------------------------------------------------- createBucket
\* createBucket without the early return: a record that fails to decode is
\* replaced by the bucket "b1" and the call goes on to the engine.
CreateBucketWith_NoReturn(t, j) ==
    /\ Enter(t)
    /\ LET bucket == jstring_to_string(j) IN
       IF ~bucket.ok
       THEN Panic(t, "createBucket", bucket.text, bucket.why)
       ELSE ToOpen(t, [NoOp EXCEPT !.fn = "createBucket", !.bucket = "b1"])
    /\ UNCHANGED <<DATASTORE, engines, dataDir, store, INITIALIZED, redirects,
                   portOwner>>

\* The call with the JString j as java_bucket.
CreateBucketWith(t, j) ==
    /\ Enter(t)
    /\ LET bucket == jstring_to_string(j)
           bucket_json == from_str_Bucket(bucket.text)
       IN  IF ~bucket.ok
           THEN Panic(t, "createBucket", bucket.text, bucket.why)
           ELSE IF ~bucket_json.ok
           THEN Return(t, create_error_object("createBucket",
                                              bucket_json.err, "decode"))
           ELSE ToOpen(t, [NoOp EXCEPT !.fn = "createBucket",
                                       !.bucket = bucket_json.id])
    /\ UNCHANGED <<DATASTORE, engines, dataDir, store, INITIALIZED, redirects,
                   portOwner>>

CreateBucket(t) == \E j \in JStrings(BucketTexts) : CreateBucketWith(t, j)

\* match openDatastore().create_bucket(&bucket_json)
DoCreateBucket(t) ==
    /\ ~aborted
    /\ pc[t] = "op"
    /\ op[t].fn = "createBucket"
    /\ \E fault \in BOOLEAN :
         IF create_bucket(handle[t], op[t].bucket, fault)
         THEN /\ buckets' = buckets \cup {op[t].bucket}
              /\ Return(t, string_to_jstring("createBucket", "plain",
                                  "Bucket successfully created", "none"))
         ELSE /\ UNCHANGED buckets
              /\ Return(t, create_error_object("createBucket",
                     "Something went wrong when trying to create bucket",
                     "backend"))
    /\ UNCHANGED <<DATASTORE, engines, dataDir, events, INITIALIZED, redirects,
                   portOwner, calls>>

\* -------------------------------------------------------------- heartbeat
\* heartbeat without the early return: an event that fails to decode is
\* passed over and the call goes on to the engine.
HeartbeatWith_NoReturn(t, jb, je, java_pulsetime) ==
    /\ Enter(t)
    /\ LET bucket_id == jstring_to_string(jb)
           event == jstring_to_string(je)
       IN  IF ~bucket_id.ok
           THEN Panic(t, "heartbeat", bucket_id.text, bucket_id.why)
           ELSE IF ~event.ok
           THEN Panic(t, "heartbeat", event.text, event.why)
           ELSE ToOpen(t, [fn |-> "heartbeat", bucket |-> bucket_id.text,
                           pulse |-> java_pulsetime])
    /\ UNCHANGED <<DATASTORE, engines, dataDir, store, INITIALIZED, redirects,
                   portOwner>>

\* The call with the JStrings jb and je as java_bucket_id and java_event.
HeartbeatWith(t, jb, je, java_pulsetime) ==
    /\ Enter(t)
    /\ LET bucket_id == jstring_to_string(jb)
           event == jstring_to_string(je)
           event_json == from_str_Event(event.text)
       IN  IF ~bucket_id.ok
           THEN Panic(t, "heartbeat", bucket_id.text, bucket_id.why)
           ELSE IF ~event.ok
           THEN Panic(t, "heartbeat", event.text, event.why)
           ELSE IF ~event_json.ok
           THEN Return(t, create_error_object("heartbeat", event_json.err,
                                              "decode"))
           ELSE ToOpen(t, [fn |-> "heartbeat", bucket |-> bucket_id.text,
                           pulse |-> java_pulsetime])
    /\ UNCHANGED <<DATASTORE, engines, dataDir, store, INITIALIZED, redirects,
                   portOwner>>

Heartbeat(t) ==
    \E jb \in JStrings(BucketIds), je \in JStrings(EventTexts),
       java_pulsetime \in Pulses : HeartbeatWith(t, jb, je, java_pulsetime)

\* heartbeat with the arms of the match swapped: Ok answers with the
\* envelope and Err with the success message.
DoHeartbeatWith_Swapped(t, fault, merged) ==
    /\ ~aborted
    /\ pc[t] = "op"
    /\ op[t].fn = "heartbeat"
    /\ IF heartbeat(handle[t], op[t].bucket, fault)
       THEN /\ IF merged THEN events[op[t].bucket] > 0
                         ELSE events[op[t].bucket] < MaxEvents
            /\ events' = [events EXCEPT ![op[t].bucket] =
                              IF merged THEN @ ELSE @ + 1]
            /\ Return(t, create_error_object("heartbeat",
                   "Something went wrong when trying to send heartbeat",
                   "backend"))
       ELSE /\ UNCHANGED events
            /\ Return(t, string_to_jstring("heartbeat", "plain",
                                "Heartbeat successfully received", "none"))
    /\ UNCHANGED <<DATASTORE, engines, dataDir, buckets, INITIALIZED, redirects,
                   portOwner, calls>>

\* match openDatastore().heartbeat(&bucket_id, event_json, pulsetime): the
\* engine merges the event into the bucket's last one (merged) or stores it
\* as a new one, unless the operation fails.
DoHeartbeatWith(t, fault, merged) ==
    /\ ~aborted
    /\ pc[t] = "op"
    /\ op[t].fn = "heartbeat"
    /\ IF heartbeat(handle[t], op[t].bucket, fault)
       THEN /\ IF merged THEN events[op[t].bucket] > 0
                         ELSE events[op[t].bucket] < MaxEvents
            /\ events' = [events EXCEPT ![op[t].bucket] =
                              IF merged THEN @ ELSE @ + 1]
            /\ Return(t, string_to_jstring("heartbeat", "plain",
                                "Heartbeat successfully received", "none"))
       ELSE /\ UNCHANGED events
            /\ Return(t, create_error_object("heartbeat",
                   "Something went wrong when trying to send heartbeat",
                   "backend"))
    /\ UNCHANGED <<DATASTORE, engines, dataDir, buckets, INITIALIZED, redirects,
                   portOwner, calls>>

DoHeartbeat(t) ==
    \E fault \in BOOLEAN, merged \in BOOLEAN : DoHeartbeatWith(t, fault, merged)

\* -------------------------------------------------------------- getEvents
GetEvents(t) ==
    /\ Enter(t)
    /\ \E j \in JStrings(BucketIds) :
         LET bucket_id == jstring_to_string(j) IN
         IF ~bucket_id.ok
         THEN Panic(t, "getEvents", bucket_id.text, bucket_id.why)
         ELSE ToOpen(t, [NoOp EXCEPT !.fn = "getEvents",
                                     !.bucket = bucket_id.text])
    /\ UNCHANGED <<DATASTORE, engines, dataDir, store, INITIALIZED, redirects,
                   portOwner>>

\* match openDatastore().get_events(&bucket_id, None, None, None)
DoGetEvents(t) ==
    /\ ~aborted
    /\ pc[t] = "op"
    /\ op[t].fn = "getEvents"
    /\ \E fault \in BOOLEAN :
         IF get_events(handle[t], op[t].bucket, fault)
         THEN Return(t, string_to_jstring("getEvents", "array",
                                  json_events(events[op[t].bucket]), "none"))
         ELSE Return(t, create_error_object("getEvents",
                     "Something went wrong when trying to send heartbeat",
                     "backend"))
    /\ UNCHANGED <<DATASTORE, engines, dataDir, store, INITIALIZED, redirects,
                   portOwner, calls>>

\* ------------------------------------------------------------ startServer
\* What the call leaves behind when launch() has come back and "Server
\* exited" is printed: the entry point returns nothing.
ServerExited == Ret("startServer", "void", "Server exited", "none")

\* launch() hands back its error and the statement drops it unread.  Rocket
\* panics when a launch error is dropped without having been inspected; a
\* build in which the drop is silent goes on to print "Server exited".
LaunchErrorDrop == {"panic", "silent"}

StartServer(t) ==
    /\ Enter(t)
    /\ \E j \in JStrings(AssetPaths) :
         LET asset_path == jstring_to_string(j) IN
         IF ~asset_path.ok
         THEN Panic(t, "startServer", asset_path.text, asset_path.why)
         ELSE ToOpen(t, [NoOp EXCEPT !.fn = "startServer"])
    /\ UNCHANGED <<DATASTORE, engines, dataDir, store, INITIALIZED, redirects,
                   portOwner>>

\* startServer with the service started in the background: the call returns
\* while the service runs.
Launch_Detached(t) ==
    /\ ~aborted
    /\ pc[t] = "op"
    /\ op[t].fn = "startServer"
    /\ portOwner' = (IF portOwner = 0 THEN t ELSE portOwner)
    /\ Return(t, Ret("startServer", "void", "", "none"))
    /\ UNCHANGED <<DATASTORE, engines, dataDir, store, INITIALIZED, redirects,
                   calls>>

\* endpoints::build_rocket(server_state, config).launch(): the service binds
\* 127.0.0.1:5600 and serves on the calling thread, or fails to bind.
Launch(t) ==
    /\ ~aborted
    /\ pc[t] = "op"
    /\ op[t].fn = "startServer"
    /\ IF portOwner = 0
       THEN /\ portOwner' = t
            /\ pc' = [pc EXCEPT ![t] = "serving"]
            /\ ret' = NoRet
            /\ UNCHANGED <<op, handle>>
       ELSE /\ UNCHANGED portOwner
            /\ \E drop \in LaunchErrorDrop :
                 IF drop = "panic"
                 THEN Panic(t, "startServer", "failed to bind", "bind")
                 ELSE Return(t, ServerExited)
    /\ UNCHANGED <<DATASTORE, engines, dataDir, store, INITIALIZED, redirects,
                   calls>>

\* The service ends and launch() comes back: println!("Server exited").
ServerExit(t) ==
    /\ ~aborted
    /\ pc[t] = "serving"
    /\ portOwner' = 0
    /\ Return(t, ServerExited)
    /\ UNCHANGED <<DATASTORE, engines, dataDir, store, INITIALIZED, redirects,
                   calls>>

\* ---------------------------------------------------------- specifications
\* One step of thread t.
Step(t) ==
    \/ Greeting(t)
    \/ Initialize(t)
    \/ InitRedirect(t)
    \/ InitSet(t)
    \/ SetDataDir(t)
    \/ GetBuckets(t)
    \/ DoGetBuckets(t)
    \/ CreateBucket(t)
    \/ DoCreateBucket(t)
    \/ Heartbeat(t)
    \/ DoHeartbeat(t)
    \/ GetEvents(t)
    \/ DoGetEvents(t)
    \/ StartServer(t)
    \/ Launch(t)
    \/ ServerExit(t)
    \/ OpenCheck(t)
    \/ OpenConstruct(t)

\* The host calls from any of its threads at any time.
Next == \E t \in Threads : Step(t)

Spec == Init /\ [][Next]_vars

\* The host makes its calls one after another: a thread takes a step only
\* while no other thread is inside a call (a thread blocked in a running
\* service stays blocked there).
Sequential(t) == \A u \in Threads \ {t} : pc[u] \in {"idle", "serving"}

SeqNext ==
    \E t \in Threads :
        \/ Sequential(t) /\ Greeting(t)
        \/ Sequential(t) /\ Initialize(t)
        \/ Sequential(t) /\ InitRedirect(t)
        \/ Sequential(t) /\ InitSet(t)
        \/ Sequential(t) /\ SetDataDir(t)
        \/ Sequential(t) /\ GetBuckets(t)
        \/ Sequential(t) /\ DoGetBuckets(t)
        \/ Sequential(t) /\ CreateBucket(t)
        \/ Sequential(t) /\ DoCreateBucket(t)
        \/ Sequential(t) /\ Heartbeat(t)
        \/ Sequential(t) /\ DoHeartbeat(t)
        \/ Sequential(t) /\ GetEvents(t)
        \/ Sequential(t) /\ DoGetEvents(t)
        \/ Sequential(t) /\ StartServer(t)
        \/ Sequential(t) /\ Launch(t)
        \/ Sequential(t) /\ ServerExit(t)
        \/ Sequential(t) /\ OpenCheck(t)
        \/ Sequential(t) /\ OpenConstruct(t)

SpecSeq == Init /\ [][SeqNext]_vars

\* ------------------------------------------------------------------ claims
DataFns == {"getBuckets", "createBucket", "heartbeat", "getEvents"}

\* C1: however many first calls of openDatastore overlap, one engine is built
\* and every call gets a handle to that one engine.
C1_OneEngineUnderRace ==
    /\ Len(engines) <= 1
    /\ \A t \in Threads : handle[t] \in {None, 1}

\* C2: with the calls made one after another, Datastore::new runs at most
\* once, every call is handed the engine in the slot, and the slot, once
\* Some, keeps the engine it holds.
C2_SequentialIdempotent ==
    /\ [](/\ Len(engines) <= 1
          /\ DATASTORE = Len(engines)
          /\ \A t \in Threads : handle[t] \in {None, DATASTORE})
    /\ [][DATASTORE # None => DATASTORE' = DATASTORE]_vars

\* getBuckets has returned the bucket that an earlier createBucket call
\* stored, and both calls used the one engine that was built.
C2_Witness ==
    /\ ret.fn = "getBuckets" /\ ret.shape = "array"
    /\ ret.text = json_buckets({"b1"})
    /\ Len(engines) = 1 /\ DATASTORE = 1

\* C3: initialize called M times one after another redirects the output
\* exactly once, and no call of it ends in an error.
C3_InitOnceSequential ==
    /\ redirects <= 1
    /\ INITIALIZED => redirects = 1
    /\ ret.fn = "initialize" => ret.shape = "void"

\* An initialize call made after the first one has returned, having found
\* the flag set.
C3_Witness ==
    /\ \A t \in Threads : pc[t] = "idle"
    /\ ret.fn = "initialize" /\ ret.text = "Already initialized"
    /\ redirects = 1 /\ INITIALIZED

\* C4: when initialize calls overlap, the output is still redirected only once.
C4_InitOnceUnderRace == redirects <= 1

\* C5: no entry point ends in a panic because an argument was not valid text,
\* a record did not decode or an engine operation failed.
C5_NoAbortOnError ==
    ret.shape = "panic" => ret.cause \notin {"text", "decode", "backend"}

\* The JStrings that are valid text but no valid bucket record.
InvalidBucketJStrings ==
    {j \in JStrings(BucketTexts) : j.kind = "ok" /\ ~from_str_Bucket(j.text).ok}

\* C6: createBucket on text that is no valid bucket record returns an Error
\* Envelope with a non-empty `error`, in the step that decodes it: the call
\* never reaches create_bucket and the stored buckets and events stay as
\* they were.
C6_InvalidBucketRejected ==
    [][\A t \in Threads : \A j \in InvalidBucketJStrings :
          CreateBucketWith(t, j) =>
              /\ pc'[t] = "idle" /\ op'[t] = NoOp
              /\ ret'.thread = t /\ ret'.fn = "createBucket"
              /\ ret'.shape = "envelope"
              /\ ret'.text = EnvelopeText(from_str_Bucket(j.text).err)
              /\ ret'.text # EnvelopeText("")
              /\ UNCHANGED <<store, DATASTORE, engines>>]_vars

\* A createBucket call has ended in the envelope of a decode error.
C6_Witness ==
    /\ ret.fn = "createBucket" /\ ret.cause = "decode"
    /\ ret.shape = "envelope" /\ pc[ret.thread] = "idle"

\* C7: a finished call of a data entry point returned an Error Envelope if
\* and only if its record failed to decode or the engine operation failed,
\* and the raw success value otherwise.
C7_EnvelopeIffFailure ==
    ret.fn \in DataFns =>
        /\ (ret.shape = "envelope") <=> (ret.cause \in {"decode", "backend"})
        /\ ret.cause = "none" => ret.shape \in {"plain", "array"}

\* C8: a start made while a service is bound to the port ends in a BindError
\* for that call, and the running service stays bound and serving.
C8_SecondStartBindError ==
    [][\A t \in Threads :
          (Launch(t) /\ portOwner # 0) =>
              /\ ret'.thread = t /\ ret'.cause = "bind"
              /\ portOwner' = portOwner
              /\ pc'[portOwner] = "serving"
              /\ ~aborted']_vars

\* C9: a start whose launch fails is not tried again and ends in an outcome
\* that differs from that of a service that ran and ended.
C9_BindFailureSurfaced ==
    [][\A t \in Threads :
          (Launch(t) /\ portOwner # 0) =>
              /\ pc'[t] = "idle"
              /\ ret' # OutcomeOf(t, ServerExited)]_vars

\* C10: while a service runs, the call that started it has not returned, and
\* a call in progress on any other thread can take its next step.
C10_StartBlocksOnlyItself ==
    /\ \A t \in Threads : portOwner = t <=> pc[t] = "serving"
    /\ \A t \in Threads :
         (~aborted /\ pc[t] \notin {"idle", "serving"}) => ENABLED Step(t)

\* One thread is blocked in its running service while another thread is in
\* the middle of a createBucket call.
C10_Witness ==
    \E s, t \in Threads :
        /\ pc[s] = "serving" /\ portOwner = s
        /\ pc[t] = "op" /\ op[t].fn = "createBucket"

C12_NoHalfOpenEngine == DATASTORE # None => Usable(DATASTORE)

C14_InitFlagSetOnce ==
    /\ ~INITIALIZED
    /\ [][/\ ret'.fn = "initialize" => INITIALIZED'
          /\ INITIALIZED => INITIALIZED'
          /\ INITIALIZED' # INITIALIZED =>
                \E t \in Threads : InitSet(t) /\ ret'.fn = "initialize"]_vars

\* The first initialize call has returned and has set the flag.
C14_Witness ==
    /\ INITIALIZED /\ calls = 1
    /\ ret.fn = "initialize" /\ ret.text = "Initializing aw-server-rust..."

InvalidEventJStrings ==
    {j \in JStrings(EventTexts) : j.kind = "ok" /\ ~from_str_Event(j.text).ok}

\* The call of thread t has ended in this step with the Error Envelope of a
\* decode error, with the slot, the engines and every handle left as they
\* were and no engine operation begun.
EndsUntouched(t, fn) ==
    /\ ret'.thread = t /\ ret'.fn = fn
    /\ ret'.shape = "envelope" /\ ret'.cause = "decode"
    /\ pc'[t] = "idle" /\ handle'[t] = None
    /\ DATASTORE' = DATASTORE /\ engines' = engines
    /\ DATASTORE = None => DATASTORE' = None /\ engines' = <<>>
    /\ UNCHANGED store

\* C17: a createBucket or heartbeat call whose record fails to decode returns
\* its Error Envelope without reaching openDatastore: an engine that was not
\* built when the call began is not built when it returns, and neither
\* create_bucket nor heartbeat is run.
C17_DecodeFailureSkipsEngine ==
    [][\A t \in Threads :
          /\ \A j \in InvalidBucketJStrings :
                CreateBucketWith(t, j) => EndsUntouched(t, "createBucket")
          /\ \A jb \in JStrings(BucketIds), je \in InvalidEventJStrings,
                p \in Pulses :
                (HeartbeatWith(t, jb, je, p) /\ jb.kind = "ok")
                    => EndsUntouched(t, "heartbeat")]_vars

\* A heartbeat with an undecodable event has returned its envelope in a
\* process that has built no engine.
C17_Witness ==
    /\ ret.fn = "heartbeat" /\ ret.shape = "envelope" /\ ret.cause = "decode"
    /\ DATASTORE = None /\ engines = <<>>

====
